---- MODULE Spec2Model ----
(***************************************************************************)
(* Model of js/email-chooser.js, the WestTechHA email chooser: a modal     *)
(* that offers Gmail / Outlook Web / default mail app / copy for an        *)
(* address taken from a trigger element, a mailto: link or WTEmail.open.   *)
(*                                                                         *)
(* A JavaScript string is modelled as a sequence of code points (naturals).*)
(* Literals are written with Lit(<<"m","a",...>>) through the Ascii table. *)
(***************************************************************************)
EXTENDS Integers, Sequences, FiniteSets, TLC

\* ------------------------------------------------------------------------
\* Characters and literals
\* ------------------------------------------------------------------------

\* printable ASCII, code points 32..126, in order (96 is spelled "grave")
Ascii ==
  << " ", "!", "\"", "#", "$", "%", "&", "'", "(", ")", "*", "+", ",", "-", ".", "/",
     "0", "1", "2", "3", "4", "5", "6", "7", "8", "9", ":", ";", "<", "=", ">", "?",
     "@", "A", "B", "C", "D", "E", "F", "G", "H", "I", "J", "K", "L", "M", "N", "O",
     "P", "Q", "R", "S", "T", "U", "V", "W", "X", "Y", "Z", "[", "\\", "]", "^", "_",
     "grave", "a", "b", "c", "d", "e", "f", "g", "h", "i", "j", "k", "l", "m", "n", "o",
     "p", "q", "r", "s", "t", "u", "v", "w", "x", "y", "z", "{", "|", "}", "~" >>

\* code point of a printable ASCII character
Code(c) == 31 + CHOOSE i \in 1..Len(Ascii) : Ascii[i] = c

\* the string whose characters are the one-character strings of tuple t
Lit(t) == [i \in 1..Len(t) |-> Code(t[i])]

Empty == << >>

\* s.slice(from) for 0 <= from (0-based, as in JavaScript)
SliceFrom(s, from) == IF from >= Len(s) THEN Empty ELSE SubSeq(s, from + 1, Len(s))

\* s.slice(0, to)
SliceTo(s, to) == IF to <= 0 THEN Empty ELSE SubSeq(s, 1, IF to > Len(s) THEN Len(s) ELSE to)

\* s.indexOf(c) for a single character c: 0-based index or -1
IndexOf(s, c) ==
  IF \E i \in 1..Len(s) : s[i] = c
  THEN (CHOOSE i \in 1..Len(s) : s[i] = c /\ \A j \in 1..(i - 1) : s[j] # c) - 1
  ELSE -1

\* s.startsWith(p)
StartsWith(s, p) == Len(s) >= Len(p) /\ SubSeq(s, 1, Len(p)) = p

\* JavaScript WhiteSpace and LineTerminator code points, stripped by trim()
IsSpace(c) ==
  \/ c \in {9, 10, 11, 12, 13, 32, 160, 5760, 8232, 8233, 8239, 8287, 12288, 65279}
  \/ (c >= 8192 /\ c <= 8202)

\* String.prototype.trim
RECURSIVE TrimLeft(_)
TrimLeft(s) == IF s # Empty /\ IsSpace(s[1]) THEN TrimLeft(Tail(s)) ELSE s

RECURSIVE TrimRight(_)
TrimRight(s) ==
  IF s # Empty /\ IsSpace(s[Len(s)]) THEN TrimRight(SubSeq(s, 1, Len(s) - 1)) ELSE s

Trim(s) == TrimRight(TrimLeft(s))

\* String.prototype.toLowerCase on the ASCII letters (the only characters
\* whose lower case can match the literal 'mailto:')
ToLowerCase(s) == [i \in 1..Len(s) |-> IF s[i] >= 65 /\ s[i] <= 90 THEN s[i] + 32 ELSE s[i]]

\* ------------------------------------------------------------------------
\* UTF-8 and percent-encoding
\* ------------------------------------------------------------------------

IsHex(c) == (c >= 48 /\ c <= 57) \/ (c >= 65 /\ c <= 70) \/ (c >= 97 /\ c <= 102)

HexVal(c) == IF c <= 57 THEN c - 48 ELSE IF c <= 70 THEN c - 55 ELSE c - 87

\* upper-case hexadecimal digit of n in 0..15
HexDigit(n) == IF n < 10 THEN 48 + n ELSE 55 + n

\* "%XX" for a byte
PctByte(b) == << 37, HexDigit(b \div 16), HexDigit(b % 16) >>

\* the UTF-8 bytes of one code point
Utf8Bytes(c) ==
  IF c < 128 THEN << c >>
  ELSE IF c < 2048 THEN << 192 + (c \div 64), 128 + (c % 64) >>
  ELSE IF c < 65536 THEN << 224 + (c \div 4096), 128 + ((c \div 64) % 64), 128 + (c % 64) >>
  ELSE << 240 + (c \div 262144), 128 + ((c \div 4096) % 64),
          128 + ((c \div 64) % 64), 128 + (c % 64) >>

RECURSIVE Utf8Encode(_)
Utf8Encode(s) == IF s = Empty THEN Empty ELSE Utf8Bytes(s[1]) \o Utf8Encode(Tail(s))

\* number of bytes of the UTF-8 sequence a lead byte starts, 0 if it starts none
SeqLen(b) ==
  IF b < 128 THEN 1
  ELSE IF b >= 194 /\ b <= 223 THEN 2
  ELSE IF b >= 224 /\ b <= 239 THEN 3
  ELSE IF b >= 240 /\ b <= 244 THEN 4
  ELSE 0

\* range allowed for the byte that follows lead byte b
Lower2(b) == IF b = 224 THEN 160 ELSE IF b = 240 THEN 144 ELSE 128
Upper2(b) == IF b = 237 THEN 159 ELSE IF b = 244 THEN 143 ELSE 191

\* is byte x a legal k-th byte (k >= 2) of a sequence with lead byte b
ContOk(b, k, x) ==
  IF k = 2 THEN x >= Lower2(b) /\ x <= Upper2(b) ELSE x >= 128 /\ x <= 191

\* code point of the well-formed UTF-8 sequence bs
CodePoint(bs) ==
  IF Len(bs) = 1 THEN bs[1]
  ELSE IF Len(bs) = 2 THEN (bs[1] - 192) * 64 + (bs[2] - 128)
  ELSE IF Len(bs) = 3 THEN (bs[1] - 224) * 4096 + (bs[2] - 128) * 64 + (bs[3] - 128)
  ELSE (bs[1] - 240) * 262144 + (bs[2] - 128) * 4096 + (bs[3] - 128) * 64 + (bs[4] - 128)

\* characters encodeURIComponent leaves alone: A-Z a-z 0-9 - _ . ! ~ * ' ( )
Unreserved(c) ==
  \/ (c >= 65 /\ c <= 90) \/ (c >= 97 /\ c <= 122) \/ (c >= 48 /\ c <= 57)
  \/ c \in {45, 95, 46, 33, 126, 42, 39, 40, 41}

RECURSIVE PctBytes(_)
PctBytes(bs) == IF bs = Empty THEN Empty ELSE PctByte(bs[1]) \o PctBytes(Tail(bs))

\* encodeURIComponent of a well-formed string
RECURSIVE EncodeURIComponent(_)
EncodeURIComponent(s) ==
  IF s = Empty THEN Empty
  ELSE (IF Unreserved(s[1]) THEN << s[1] >> ELSE PctBytes(Utf8Bytes(s[1])))
       \o EncodeURIComponent(Tail(s))

\* the byte "%XX" at position k (1-based) of s, or -1 when s has no escape there
EscapeAt(s, k) ==
  IF k + 2 <= Len(s) /\ s[k] = 37 /\ IsHex(s[k + 1]) /\ IsHex(s[k + 2])
  THEN HexVal(s[k + 1]) * 16 + HexVal(s[k + 2])
  ELSE -1

\* decodeURIComponent: [ok |-> TRUE, val |-> decoded] or, when it throws
\* URIError, [ok |-> FALSE, val |-> Empty]
Threw == [ok |-> FALSE, val |-> Empty]

RECURSIVE DecodeFrom(_, _, _)
DecodeFrom(s, k, acc) ==
  IF k > Len(s) THEN [ok |-> TRUE, val |-> acc]
  ELSE IF s[k] # 37 THEN DecodeFrom(s, k + 1, Append(acc, s[k]))
  ELSE IF EscapeAt(s, k) = -1 THEN Threw
  ELSE LET b == EscapeAt(s, k)
           n == SeqLen(b)
       IN IF n = 0 THEN Threw
          ELSE IF k + 3 * n - 1 > Len(s) THEN Threw
          ELSE LET bs == [i \in 1..n |-> EscapeAt(s, k + 3 * (i - 1))]
               IN IF \A i \in 2..n : bs[i] # -1 /\ ContOk(b, i, bs[i])
                  THEN DecodeFrom(s, k + 3 * n, Append(acc, CodePoint(bs)))
                  ELSE Threw

DecodeURIComponent(s) == DecodeFrom(s, 1, Empty)

\* ------------------------------------------------------------------------
\* URLSearchParams (application/x-www-form-urlencoded parsing)
\* ------------------------------------------------------------------------

\* percent-decode a byte sequence; an escape that is not "%XX" stays as it is
RECURSIVE PercentDecode(_)
PercentDecode(bs) ==
  IF bs = Empty THEN Empty
  ELSE IF EscapeAt(bs, 1) # -1
       THEN << EscapeAt(bs, 1) >> \o PercentDecode(SliceFrom(bs, 3))
       ELSE << bs[1] >> \o PercentDecode(Tail(bs))

\* how many of the bytes after position k continue the sequence led by bs[k]
RECURSIVE ContRun(_, _, _)
ContRun(bs, k, i) ==
  IF i < SeqLen(bs[k]) /\ k + i <= Len(bs) /\ ContOk(bs[k], i + 1, bs[k + i])
  THEN ContRun(bs, k, i + 1)
  ELSE i - 1

\* UTF-8 decode without BOM: every ill-formed subsequence becomes U+FFFD
RECURSIVE Utf8DecodeFrom(_, _, _)
Utf8DecodeFrom(bs, k, acc) ==
  IF k > Len(bs) THEN acc
  ELSE IF SeqLen(bs[k]) = 0 THEN Utf8DecodeFrom(bs, k + 1, Append(acc, 65533))
  ELSE LET n == SeqLen(bs[k])
           m == ContRun(bs, k, 1)
       IN IF m = n - 1
          THEN Utf8DecodeFrom(bs, k + n, Append(acc, CodePoint(SubSeq(bs, k, k + n - 1))))
          ELSE Utf8DecodeFrom(bs, k + m + 1, Append(acc, 65533))

Utf8Decode(bs) == Utf8DecodeFrom(bs, 1, Empty)

\* '+' becomes a space before percent-decoding
PlusToSpace(bs) == [i \in 1..Len(bs) |-> IF bs[i] = 43 THEN 32 ELSE bs[i]]

FormDecode(bs) == Utf8Decode(PercentDecode(PlusToSpace(bs)))

\* the pieces of bs between occurrences of byte sep
RECURSIVE Split(_, _)
Split(bs, sep) ==
  IF IndexOf(bs, sep) = -1 THEN << bs >>
  ELSE << SliceTo(bs, IndexOf(bs, sep)) >> \o Split(SliceFrom(bs, IndexOf(bs, sep) + 1), sep)

\* one "name=value" piece as a [name, value] tuple
ParsePair(bs) ==
  IF IndexOf(bs, 61) = -1
  THEN [name |-> FormDecode(bs), value |-> Empty]
  ELSE [name |-> FormDecode(SliceTo(bs, IndexOf(bs, 61))),
        value |-> FormDecode(SliceFrom(bs, IndexOf(bs, 61) + 1))]

RECURSIVE ParsePairs(_)
ParsePairs(pieces) ==
  IF pieces = Empty THEN Empty
  ELSE (IF pieces[1] = Empty THEN Empty ELSE << ParsePair(pieces[1]) >>)
       \o ParsePairs(Tail(pieces))

\* new URLSearchParams(query): the list of name/value tuples
URLSearchParams(query) ==
  ParsePairs(Split(Utf8Encode(IF query # Empty /\ query[1] = 63 THEN Tail(query) ELSE query), 38))

\* null, undefined, a missing attribute or a missing field
Absent == << -1 >>

\* params.get(name): the value of the first tuple called name, or null
Get(params, name) ==
  IF \E i \in 1..Len(params) : params[i].name = name
  THEN params[CHOOSE i \in 1..Len(params) :
                /\ params[i].name = name
                /\ \A j \in 1..(i - 1) : params[j].name # name].value
  ELSE Absent

\* JavaScript truthiness of a string-or-null value
Truthy(v) == v # Absent /\ v # Empty

\* a || b
Or(a, b) == IF Truthy(a) THEN a ELSE b

\* ------------------------------------------------------------------------
\* The chooser's pure functions
\* ------------------------------------------------------------------------

DEFAULT_TO ==
  Lit(<< "s","u","p","p","o","r","t","@","W","e","s","t","T","e","c","h","H","A",".","c","o","m" >>)

MAILTO == Lit(<< "m","a","i","l","t","o",":" >>)
SUBJECT == Lit(<< "s","u","b","j","e","c","t" >>)
SU == Lit(<< "s","u" >>)
BODY == Lit(<< "b","o","d","y" >>)

\* enc with a second round of encoding (faulty variant of enc)
enc_double(v) == EncodeURIComponent(EncodeURIComponent(Or(v, Empty)))

\* enc(v): encodeURIComponent(v || '')
enc(v) == EncodeURIComponent(Or(v, Empty))

\* parseMailto(href): [threw, to, subject, body]; threw = TRUE when the call
\* ends in an uncaught URIError (the fields are then meaningless)
ParseOut(to, subject, body) == [threw |-> FALSE, to |-> to, subject |-> subject, body |-> body]
ParseThrew == [threw |-> TRUE, to |-> Empty, subject |-> Empty, body |-> Empty]

\* the alias read first (faulty variant of pickSubject)
pickSubject_suFirst(params) == Or(Get(params, SU), Or(Get(params, SUBJECT), Empty))

\* line 69: params.get('subject') || params.get('su') || ''
pickSubject(params) == Or(Get(params, SUBJECT), Or(Get(params, SU), Empty))

\* line 70: params.get('body') || ''
pickBody(params) == Or(Get(params, BODY), Empty)

\* lines 58-76: what parseMailto does with raw once the prefix test passed
parseAfterPrefix(raw) ==
  LET rest == SliceFrom(raw, 7)
      qIndex == IndexOf(rest, 63)
      toPart == IF qIndex >= 0 THEN SliceTo(rest, qIndex) ELSE rest
      query == IF qIndex >= 0 THEN SliceFrom(rest, qIndex + 1) ELSE Empty
      dec == DecodeURIComponent(toPart)
      params == URLSearchParams(query)
  IN IF ~dec.ok THEN ParseThrew
     ELSE ParseOut(Or(Trim(dec.val), DEFAULT_TO),
                   IF query # Empty THEN pickSubject(params) ELSE Empty,
                   IF query # Empty THEN pickBody(params) ELSE Empty)

\* parseMailto without the scheme test (faulty variant of parseMailto)
parseMailto_noCheck(href) ==
  IF ~Truthy(href) THEN ParseOut(Empty, Empty, Empty)
  ELSE parseAfterPrefix(Trim(href))

parseMailto(href) ==
  IF ~Truthy(href) THEN ParseOut(Empty, Empty, Empty)
  ELSE IF ~StartsWith(ToLowerCase(Trim(href)), MAILTO) THEN ParseOut(Empty, Empty, Empty)
  ELSE parseAfterPrefix(Trim(href))

GMAIL_COMPOSE ==
  Lit(<< "h","t","t","p","s",":","/","/","m","a","i","l",".","g","o","o","g","l","e",".","c","o","m",
         "/","m","a","i","l","/","?","v","i","e","w","=","c","m","&","f","s","=","1","&","t","o","=" >>)

OUTLOOK_COMPOSE ==
  Lit(<< "h","t","t","p","s",":","/","/","o","u","t","l","o","o","k",".","o","f","f","i","c","e",".","c","o","m",
         "/","m","a","i","l","/","d","e","e","p","l","i","n","k","/","c","o","m","p","o","s","e","?","t","o","=" >>)

\* buildLinks that appends the optional parameters unconditionally
\* (faulty variant of buildLinks)
buildLinks_blank(to, subject, body) ==
  [gmail |-> GMAIL_COMPOSE \o enc(to)
               \o Lit(<< "&","s","u","=" >>) \o enc(subject)
               \o Lit(<< "&","b","o","d","y","=" >>) \o enc(body),
   outlook |-> OUTLOOK_COMPOSE \o enc(to)
               \o Lit(<< "&","s","u","b","j","e","c","t","=" >>) \o enc(subject)
               \o Lit(<< "&","b","o","d","y","=" >>) \o enc(body),
   mailto |-> MAILTO \o to
               \o Lit(<< "?","s","u","b","j","e","c","t","=" >>) \o enc(subject)
               \o Lit(<< "&","b","o","d","y","=" >>) \o enc(body),
   toText |-> to]

\* buildLinks that writes the encoded address into the native link
\* (faulty variant of buildLinks)
buildLinks_encTo(to, subject, body) ==
  LET toEnc == enc(to)
      suEnc == enc(subject)
      bodyEnc == enc(body)
  IN [gmail |-> GMAIL_COMPOSE \o toEnc
                 \o (IF Truthy(subject) THEN Lit(<< "&","s","u","=" >>) \o suEnc ELSE Empty)
                 \o (IF Truthy(body) THEN Lit(<< "&","b","o","d","y","=" >>) \o bodyEnc ELSE Empty),
      outlook |-> OUTLOOK_COMPOSE \o toEnc
                 \o (IF Truthy(subject) THEN Lit(<< "&","s","u","b","j","e","c","t","=" >>) \o suEnc ELSE Empty)
                 \o (IF Truthy(body) THEN Lit(<< "&","b","o","d","y","=" >>) \o bodyEnc ELSE Empty),
      mailto |-> MAILTO \o toEnc
                 \o (IF Truthy(subject) \/ Truthy(body) THEN Lit(<< "?" >>) ELSE Empty)
                 \o (IF Truthy(subject) THEN Lit(<< "s","u","b","j","e","c","t","=" >>) \o suEnc ELSE Empty)
                 \o (IF Truthy(subject) /\ Truthy(body) THEN Lit(<< "&" >>) ELSE Empty)
                 \o (IF Truthy(body) THEN Lit(<< "b","o","d","y","=" >>) \o bodyEnc ELSE Empty),
      toText |-> to]

\* buildLinks(els, to, subject, body): the four values it writes
buildLinks(to, subject, body) ==
  LET toEnc == enc(to)
      suEnc == enc(subject)
      bodyEnc == enc(body)
  IN [gmail |-> GMAIL_COMPOSE \o toEnc
                 \o (IF Truthy(subject) THEN Lit(<< "&","s","u","=" >>) \o suEnc ELSE Empty)
                 \o (IF Truthy(body) THEN Lit(<< "&","b","o","d","y","=" >>) \o bodyEnc ELSE Empty),
      outlook |-> OUTLOOK_COMPOSE \o toEnc
                 \o (IF Truthy(subject) THEN Lit(<< "&","s","u","b","j","e","c","t","=" >>) \o suEnc ELSE Empty)
                 \o (IF Truthy(body) THEN Lit(<< "&","b","o","d","y","=" >>) \o bodyEnc ELSE Empty),
      mailto |-> MAILTO \o to
                 \o (IF Truthy(subject) \/ Truthy(body) THEN Lit(<< "?" >>) ELSE Empty)
                 \o (IF Truthy(subject) THEN Lit(<< "s","u","b","j","e","c","t","=" >>) \o suEnc ELSE Empty)
                 \o (IF Truthy(subject) /\ Truthy(body) THEN Lit(<< "&" >>) ELSE Empty)
                 \o (IF Truthy(body) THEN Lit(<< "b","o","d","y","=" >>) \o bodyEnc ELSE Empty),
      toText |-> to]

\* ------------------------------------------------------------------------
\* The dialog: DOM state and the functions that change it
\* ------------------------------------------------------------------------

VARIABLES
  dom,      \* the rendered surface: #wtEmailModal, its links and recipient text,
            \* and how many overlay/notification pairs the document holds
  toast,    \* #wtEmailToast: its text and whether it carries class 'show'
  timers,   \* number of pending auto-dismiss timeouts set by showToast
  wired,    \* has the DOMContentLoaded handler run (close/copy listeners attached)
  pending,  \* clipboard writes in flight, each with the address its handler read
  ev,       \* the last event handled and what its handler did (observation)
  lastReq,  \* the payload of the most recent openModal call (observation)
  arg,      \* input of the pure function under test
  ret       \* its result

vars == << dom, toast, timers, wired, pending, ev, lastReq, arg, ret >>

\* bounds of the model
MaxPending == 1
MaxTimers == 2

None == "none"

\* no openModal call yet
NoRequest == [given |-> FALSE, to |-> Absent, subject |-> Absent, body |-> Absent, none |-> TRUE]

\* no function under test (the dialog's own specification)
NoArg == [kind |-> None]

\* the document before ensureModal has run
NoSurface ==
  [exists |-> FALSE, surfaces |-> 0, isOpen |-> FALSE, ariaHidden |-> "true",
   gmail |-> Absent, outlook |-> Absent, mailto |-> Absent, toText |-> Empty]

\* no result yet
NoRet == [stage |-> None, out |-> ParseOut(Empty, Empty, Empty), links |-> NoSurface]

\* ensureModal without the existence test (faulty variant of ensureModal)
ensureModal_again(d) ==
  [exists |-> TRUE, surfaces |-> d.surfaces + 1, isOpen |-> FALSE, ariaHidden |-> "true",
   gmail |-> Absent, outlook |-> Absent, mailto |-> Absent, toText |-> DEFAULT_TO]

\* ensureModal(): append the overlay and the notification area unless
\* #wtEmailModal is already there; surfaces counts the appended pairs
ensureModal(d) ==
  IF d.exists THEN d
  ELSE [exists |-> TRUE, surfaces |-> d.surfaces + 1, isOpen |-> FALSE, ariaHidden |-> "true",
        gmail |-> Absent, outlook |-> Absent, mailto |-> Absent, toText |-> DEFAULT_TO]

\* getEls(): null when #wtEmailModal is not in the document
getEls(d) == d.exists

\* openModal that takes the fields of a given payload as they are
\* (faulty variant of openModal)
openModal_asGiven(d, payload) ==
  LET d1 == ensureModal(d)
      to == IF payload.given THEN payload.to ELSE DEFAULT_TO
      subject == IF payload.given THEN payload.subject ELSE Empty
      body == IF payload.given THEN payload.body ELSE Empty
      links == buildLinks(to, subject, body)
  IN IF ~getEls(d1) THEN d1
     ELSE [d1 EXCEPT !.gmail = links.gmail, !.outlook = links.outlook,
                     !.mailto = links.mailto, !.toText = links.toText,
                     !.isOpen = TRUE, !.ariaHidden = "false"]

\* openModal that leaves an already open dialog as it is (faulty variant of openModal)
openModal_keep(d, payload) ==
  LET d1 == ensureModal(d)
      to == IF payload.given /\ Truthy(payload.to) THEN payload.to ELSE DEFAULT_TO
      subject == IF payload.given /\ Truthy(payload.subject) THEN payload.subject ELSE Empty
      body == IF payload.given /\ Truthy(payload.body) THEN payload.body ELSE Empty
      links == buildLinks(to, subject, body)
  IN IF ~getEls(d1) \/ d1.isOpen THEN d1
     ELSE [d1 EXCEPT !.gmail = links.gmail, !.outlook = links.outlook,
                     !.mailto = links.mailto, !.toText = links.toText,
                     !.isOpen = TRUE, !.ariaHidden = "false"]

\* openModal(payload); payload.given = FALSE is a call without argument
openModal(d, payload) ==
  LET d1 == ensureModal(d)
      to == IF payload.given /\ Truthy(payload.to) THEN payload.to ELSE DEFAULT_TO
      subject == IF payload.given /\ Truthy(payload.subject) THEN payload.subject ELSE Empty
      body == IF payload.given /\ Truthy(payload.body) THEN payload.body ELSE Empty
      links == buildLinks(to, subject, body)
  IN IF ~getEls(d1) THEN d1
     ELSE [d1 EXCEPT !.gmail = links.gmail, !.outlook = links.outlook,
                     !.mailto = links.mailto, !.toText = links.toText,
                     !.isOpen = TRUE, !.ariaHidden = "false"]

\* closeModal that renders the surface first, as openModal does
\* (faulty variant of closeModal)
closeModal_ensure(d) ==
  [ensureModal(d) EXCEPT !.isOpen = FALSE, !.ariaHidden = "true"]

\* closeModal that toggles the class (faulty variant of closeModal)
closeModal_toggle(d) ==
  IF ~getEls(d) THEN d
  ELSE [d EXCEPT !.isOpen = ~d.isOpen, !.ariaHidden = IF d.isOpen THEN "true" ELSE "false"]

\* closeModal that removes the class only (faulty variant of closeModal)
closeModal_noAria(d) ==
  IF ~getEls(d) THEN d
  ELSE [d EXCEPT !.isOpen = FALSE]

\* closeModal that also resets the recipient and the links
\* (faulty variant of closeModal)
closeModal_clear(d) ==
  IF ~getEls(d) THEN d
  ELSE [d EXCEPT !.isOpen = FALSE, !.ariaHidden = "true", !.toText = DEFAULT_TO,
                 !.gmail = Absent, !.outlook = Absent, !.mailto = Absent]

\* closeModal()
closeModal(d) ==
  IF ~getEls(d) THEN d
  ELSE [d EXCEPT !.isOpen = FALSE, !.ariaHidden = "true"]

Payload(to, subject, body) == [given |-> TRUE, to |-> to, subject |-> subject, body |-> body]
NoPayload == [given |-> FALSE, to |-> Absent, subject |-> Absent, body |-> Absent]

\* an observation record; fields an event does not use keep these defaults
Ev(kind) == [kind |-> kind, tgt |-> None, key |-> None, text |-> Absent,
             prevented |-> FALSE, threw |-> FALSE]

\* ------------------------------------------------------------------------
\* Inputs
\* ------------------------------------------------------------------------

AddrAB == Lit(<< "a","@","b",".","c" >>)
AddrXY == Lit(<< "x","@","y",".","z" >>)
HiThere == Lit(<< "H","i"," ","t","h","e","r","e" >>)
Yo == Lit(<< "Y","o" >>)

\* requests passed to WTEmail.open
ApiPayloads ==
  { NoPayload,
    Payload(AddrAB, HiThere, Yo),
    Payload(AddrAB, Absent, Absent),
    Payload(Empty, Empty, Yo) }

\* a trigger element: its data-email / data-subject / data-body attributes
Trigger(email, subject, body) == [email |-> email, subject |-> subject, body |-> body]
NoElement == [email |-> Absent, subject |-> Absent, body |-> Absent, none |-> TRUE]

HrefFull ==
  MAILTO \o AddrXY \o Lit(<< "?","s","u","b","j","e","c","t","=","H","i","%","2","0","t","h","e","r","e",
                             "&","b","o","d","y","=","Y","o" >>)
HrefBare == MAILTO
HrefBadPct == MAILTO \o Lit(<< "%" >>)
HrefSu == MAILTO \o AddrXY \o Lit(<< "?","s","u","b","j","e","c","t","=","&","s","u","=","Y","o" >>)
HrefUpper == Lit(<< "M","A","I","L","T","O",":" >>) \o AddrXY
HrefHttps == Lit(<< "h","t","t","p","s",":","/","/","e",".","x","/" >>)

\* click targets: the nearest enclosing element with data-wt-email-trigger
\* (or none) and the href of the enclosing anchor (or none)
Target(trig, href) == [trig |-> trig, href |-> href]

Targets ==
  { Target(Trigger(Absent, HiThere, Absent), Absent),
    Target(Trigger(AddrAB, Absent, Yo), HrefFull),
    Target(Trigger(Empty, Empty, Empty), HrefBadPct),
    Target(NoElement, HrefFull),
    Target(NoElement, HrefBare),
    Target(NoElement, HrefBadPct),
    Target(NoElement, HrefSu),
    Target(NoElement, HrefUpper),
    Target(NoElement, HrefHttps),
    Target(NoElement, Absent) }

Keys == { "Escape", "Enter" }

\* ------------------------------------------------------------------------
\* Events
\* ------------------------------------------------------------------------

Init ==
  /\ dom = NoSurface
  /\ toast = [text |-> Empty, show |-> FALSE]
  /\ timers = 0
  /\ wired = FALSE
  /\ pending = << >>
  /\ ev = Ev("load")
  /\ lastReq = NoRequest
  /\ arg = NoArg
  /\ ret = NoRet

\* document 'DOMContentLoaded': create the surface, attach close/copy listeners
DOMContentLoaded ==
  /\ ~wired
  /\ dom' = ensureModal(dom)
  /\ wired' = getEls(ensureModal(dom))
  /\ ev' = Ev("DOMContentLoaded")
  /\ UNCHANGED << toast, timers, pending, lastReq, arg, ret >>

\* WTEmail.open(payload)
ApiOpen(payload) ==
  /\ dom' = openModal(dom, payload)
  /\ lastReq' = payload
  /\ ev' = Ev("open")
  /\ UNCHANGED << toast, timers, wired, pending, arg, ret >>

\* WTEmail.close()
ApiClose ==
  /\ dom' = closeModal(dom)
  /\ ev' = Ev("close")
  /\ UNCHANGED << toast, timers, wired, pending, lastReq, arg, ret >>

\* e.target.closest('[data-wt-email-trigger]')
closestTrigger(tgt) == tgt.trig

\* a selector that matches every anchor with an href
\* (faulty variant of closestMailto)
closestMailto_any(tgt) == tgt.href # Absent

\* e.target.closest('a[href^="mailto:"]'): the selector compares the
\* attribute value as written, case-sensitively
closestMailto(tgt) == tgt.href # Absent /\ StartsWith(tgt.href, MAILTO)

\* lines 196-199: the request a trigger element's attributes give
triggerPayload(t) == Payload(Or(t.email, DEFAULT_TO), Or(t.subject, Empty), Or(t.body, Empty))

\* the document-wide click listener, for a click on target tgt
HandleClick(tgt) ==
  LET t == closestTrigger(tgt)
      parsed == parseMailto(tgt.href)
  IN IF t # NoElement
     THEN /\ dom' = openModal(dom, triggerPayload(t))
          /\ lastReq' = triggerPayload(t)
          /\ ev' = [Ev("click") EXCEPT !.tgt = tgt, !.prevented = TRUE]
     ELSE IF closestMailto(tgt)
     THEN IF parsed.threw
          THEN /\ ev' = [Ev("click") EXCEPT !.tgt = tgt, !.prevented = TRUE, !.threw = TRUE]
               /\ UNCHANGED << dom, lastReq >>
          ELSE /\ dom' = openModal(dom, Payload(parsed.to, parsed.subject, parsed.body))
               /\ lastReq' = Payload(parsed.to, parsed.subject, parsed.body)
               /\ ev' = [Ev("click") EXCEPT !.tgt = tgt, !.prevented = TRUE]
     ELSE /\ ev' = [Ev("click") EXCEPT !.tgt = tgt]
          /\ UNCHANGED << dom, lastReq >>

\* a click somewhere in the host page
Click(tgt) ==
  /\ HandleClick(tgt)
  /\ UNCHANGED << toast, timers, wired, pending, arg, ret >>

\* a click on the dialog's own "Use Default Mail App" anchor, which the
\* document-wide listener sees like any other anchor
ClickDefaultApp ==
  /\ dom.exists
  /\ HandleClick(Target(NoElement, dom.mailto))
  /\ UNCHANGED << toast, timers, wired, pending, arg, ret >>

\* a click on the backdrop; its listener exists once wired
ClickBackdrop ==
  /\ dom.exists
  /\ dom' = IF wired THEN closeModal(dom) ELSE dom
  /\ ev' = Ev("backdrop")
  /\ UNCHANGED << toast, timers, wired, pending, lastReq, arg, ret >>

\* a click on the close button; its listener exists once wired
ClickCloseBtn ==
  /\ dom.exists
  /\ dom' = IF wired THEN closeModal(dom) ELSE dom
  /\ ev' = Ev("closeBtn")
  /\ UNCHANGED << toast, timers, wired, pending, lastReq, arg, ret >>

\* a key press anywhere; the keydown listener exists once wired
KeyDown(key) ==
  /\ dom' = IF wired /\ key = "Escape" THEN closeModal(dom) ELSE dom
  /\ ev' = [Ev("keydown") EXCEPT !.key = key]
  /\ UNCHANGED << toast, timers, wired, pending, lastReq, arg, ret >>

\* what the copy handler reads before it calls the clipboard
copyEmail(d) == IF Truthy(d.toText) THEN d.toText ELSE Empty

\* a click on "Copy Address" where navigator.clipboard.writeText returns a
\* promise: the handler suspends at the await
ClickCopy ==
  /\ wired
  /\ Len(pending) < MaxPending
  /\ pending' = Append(pending, [email |-> copyEmail(dom), shown |-> dom.toText])
  /\ ev' = Ev("copy")
  /\ UNCHANGED << dom, toast, timers, wired, lastReq, arg, ret >>

\* a click on "Copy Address" where the clipboard call throws at once
\* (no navigator.clipboard): the catch block prompts in the same turn
ClickCopyUnsupported ==
  /\ wired
  /\ ev' = [Ev("prompt") EXCEPT !.text = copyEmail(dom)]
  /\ UNCHANGED << dom, toast, timers, wired, pending, lastReq, arg, ret >>

Remove(q, i) == SubSeq(q, 1, i - 1) \o SubSeq(q, i + 1, Len(q))

\* showToast(msg)
showToast(d, t, msg) ==
  IF ~getEls(d) THEN t ELSE [text |-> msg, show |-> TRUE]

COPIED == Lit(<< "C","o","p","i","e","d" >>)

\* the awaited clipboard write i succeeds: showToast('Copied') and a timeout
ClipboardResolve(i) ==
  /\ i \in 1..Len(pending)
  /\ timers < MaxTimers
  /\ toast' = showToast(dom, toast, COPIED)
  /\ timers' = IF getEls(dom) THEN timers + 1 ELSE timers
  /\ pending' = Remove(pending, i)
  /\ ev' = Ev("toast")
  /\ UNCHANGED << dom, wired, lastReq, arg, ret >>

\* a rejection handler that reads the recipient text again when it prompts
\* (faulty variant of ClipboardReject)
ClipboardReject_current(i) ==
  /\ i \in 1..Len(pending)
  /\ pending' = Remove(pending, i)
  /\ ev' = [Ev("prompt") EXCEPT !.text = copyEmail(dom)]
  /\ UNCHANGED << dom, toast, timers, wired, lastReq, arg, ret >>

\* the awaited clipboard write i fails: window.prompt with the address read
ClipboardReject(i) ==
  /\ i \in 1..Len(pending)
  /\ pending' = Remove(pending, i)
  /\ ev' = [Ev("prompt") EXCEPT !.text = pending[i].email]
  /\ UNCHANGED << dom, toast, timers, wired, lastReq, arg, ret >>

\* a timeout callback that leaves the class in place (faulty variant of TimerFire)
TimerFire_keep ==
  /\ timers > 0
  /\ timers' = timers - 1
  /\ toast' = toast
  /\ ev' = Ev("timeout")
  /\ UNCHANGED << dom, wired, pending, lastReq, arg, ret >>

\* a timeout set by showToast elapses: the toast loses class 'show'
TimerFire ==
  /\ timers > 0
  /\ timers' = timers - 1
  /\ toast' = [toast EXCEPT !.show = FALSE]
  /\ ev' = Ev("timeout")
  /\ UNCHANGED << dom, wired, pending, lastReq, arg, ret >>

Next ==
  \/ DOMContentLoaded
  \/ \E payload \in ApiPayloads : ApiOpen(payload)
  \/ ApiClose
  \/ \E tgt \in Targets : Click(tgt)
  \/ ClickDefaultApp
  \/ ClickBackdrop
  \/ ClickCloseBtn
  \/ \E key \in Keys : KeyDown(key)
  \/ ClickCopy
  \/ ClickCopyUnsupported
  \/ \E i \in 1..MaxPending : ClipboardResolve(i)
  \/ \E i \in 1..MaxPending : ClipboardReject(i)
  \/ TimerFire

Spec == Init /\ [][Next]_vars

\* the event loop runs every timeout callback that is due
SpecLive == Spec /\ WF_vars(TimerFire)

\* ------------------------------------------------------------------------
\* The pure functions on their own: parseMailto and buildLinks applied to
\* inputs drawn from bounded sets
\* ------------------------------------------------------------------------

\* bound: the number of name=value pieces in a generated query
MaxPairs == 2

\* what precedes the address in a generated href
Prefixes ==
  { MAILTO,
    Lit(<< "M","a","i","l","T","o",":" >>),
    Lit(<< " ","m","a","i","l","t","o",":" >>),
    Lit(<< "h","t","t","p",":" >>),
    Lit(<< "x","m","a","i","l","t","o",":" >>),
    Lit(<< "m","a","i","l" >>),
    Empty }

\* address parts as written (raw) with their percent-decoding (dec);
\* ok = FALSE when raw is not validly percent-encoded
Addr(raw, dec, ok) == [raw |-> raw, dec |-> dec, ok |-> ok]

Addrs ==
  { Addr(AddrXY, AddrXY, TRUE),
    Addr(Lit(<< "x","%","4","0","y",".","z" >>), AddrXY, TRUE),
    Addr(Empty, Empty, TRUE),
    Addr(Lit(<< " " >>), Lit(<< " " >>), TRUE),
    Addr(Lit(<< "%" >>), Empty, FALSE),
    Addr(Lit(<< "%","E","9" >>), Empty, FALSE) }

\* query pieces as written: key, '=' and raw value (eq = FALSE: no '='),
\* with the percent-decoding of the value (dec)
Pair(key, eq, raw, dec) == [key |-> key, eq |-> eq, raw |-> raw, dec |-> dec]

Pairs ==
  { Pair(SUBJECT, TRUE, Lit(<< "H","i","%","2","0","t","h","e","r","e" >>), HiThere),
    Pair(SUBJECT, TRUE, Empty, Empty),
    Pair(SUBJECT, TRUE, Lit(<< "%","z","z" >>), Lit(<< "%","z","z" >>)),
    Pair(SU, TRUE, Yo, Yo),
    Pair(BODY, TRUE, Yo, Yo),
    Pair(BODY, TRUE, Lit(<< "a","+","b" >>), Lit(<< "a","+","b" >>)),
    Pair(Lit(<< "x" >>), FALSE, Empty, Empty) }

PairSeqs == UNION { [1..n -> Pairs] : n \in 0..MaxPairs }

\* has = FALSE: the href has no '?'
Queries == { [has |-> FALSE, pairs |-> << >>] } \cup { [has |-> TRUE, pairs |-> ps] : ps \in PairSeqs }

ParseArgs == { [kind |-> "parse", pre |-> p, addr |-> a, q |-> q] : p \in Prefixes, a \in Addrs, q \in Queries }

PairText(p) == p.key \o (IF p.eq THEN Lit(<< "=" >>) \o p.raw ELSE Empty)

RECURSIVE JoinPairs(_)
JoinPairs(ps) ==
  IF ps = << >> THEN Empty
  ELSE PairText(ps[1]) \o (IF Len(ps) > 1 THEN Lit(<< "&" >>) ELSE Empty) \o JoinPairs(Tail(ps))

\* the href a parse argument stands for
Href(a) == a.pre \o a.addr.raw \o (IF a.q.has THEN Lit(<< "?" >>) \o JoinPairs(a.q.pairs) ELSE Empty)

Fifty == Lit(<< "5","0","%"," ","&"," ","=","?" >>)
Cafe == Lit(<< "c","a","f" >>) \o << 233 >>

\* arguments of buildLinks as openModal passes them: a non-empty address,
\* subject and body strings that may be empty
BuildArgs ==
  { [kind |-> "build", to |-> t, subject |-> su, body |-> b] :
      t \in { DEFAULT_TO, AddrAB, Fifty, Cafe },
      su \in { Empty, HiThere, Fifty, Cafe },
      b \in { Empty, Yo, Fifty, Cafe } }

InitPure ==
  /\ dom = NoSurface
  /\ toast = [text |-> Empty, show |-> FALSE]
  /\ timers = 0
  /\ wired = FALSE
  /\ pending = << >>
  /\ ev = Ev("load")
  /\ lastReq = NoRequest
  /\ arg \in ParseArgs \cup BuildArgs
  /\ ret = NoRet

\* payload = parseMailto(href)
CallParseMailto ==
  /\ arg.kind = "parse"
  /\ ret.stage = None
  /\ ret' = [stage |-> "parsed", out |-> parseMailto(Href(arg)), links |-> NoSurface]
  /\ UNCHANGED << dom, toast, timers, wired, pending, ev, lastReq, arg >>

\* openModal(payload) on the result of parseMailto, as the click listener does
CallOpenModal ==
  /\ arg.kind = "parse"
  /\ ret.stage = "parsed"
  /\ ~ret.out.threw
  /\ ret' = [ret EXCEPT !.stage = "opened", !.links = openModal(NoSurface, Payload(ret.out.to, ret.out.subject, ret.out.body))]
  /\ UNCHANGED << dom, toast, timers, wired, pending, ev, lastReq, arg >>

\* buildLinks(els, to, subject, body)
CallBuildLinks ==
  /\ arg.kind = "build"
  /\ ret.stage = None
  /\ ret' = [stage |-> "built", out |-> ParseOut(Empty, Empty, Empty),
              links |-> buildLinks(arg.to, arg.subject, arg.body)]
  /\ UNCHANGED << dom, toast, timers, wired, pending, ev, lastReq, arg >>

NextPure == CallParseMailto \/ CallOpenModal \/ CallBuildLinks

SpecPure == InitPure /\ [][NextPure]_vars

\* ------------------------------------------------------------------------
\* Reading a built link back: its endpoint and its name=value parameters
\* ------------------------------------------------------------------------

KV(k, v) == [k |-> k, v |-> v]

PieceKV(piece) ==
  IF IndexOf(piece, 61) = -1 THEN KV(piece, Absent)
  ELSE KV(SliceTo(piece, IndexOf(piece, 61)), SliceFrom(piece, IndexOf(piece, 61) + 1))

\* the parameters of the query text q, in order
LinkParams(q) ==
  IF q = Empty THEN << >>
  ELSE [i \in 1..Len(Split(q, 38)) |-> PieceKV(Split(q, 38)[i])]

\* a web link up to and including its first '?', and what follows it
Endpoint(link) == SliceTo(link, IndexOf(link, 63) + 1)
QueryOf(link) == SliceFrom(link, IndexOf(link, 63) + 1)

GmailEndpoint ==
  Lit(<< "h","t","t","p","s",":","/","/","m","a","i","l",".","g","o","o","g","l","e",".","c","o","m",
         "/","m","a","i","l","/","?" >>)

OutlookEndpoint ==
  Lit(<< "h","t","t","p","s",":","/","/","o","u","t","l","o","o","k",".","o","f","f","i","c","e",".","c","o","m",
         "/","m","a","i","l","/","d","e","e","p","l","i","n","k","/","c","o","m","p","o","s","e","?" >>)

TO == Lit(<< "t","o" >>)

\* the optional parameters a request must give rise to, in order
Optional(subjectKey, subject, body) ==
  (IF subject # Empty THEN << KV(subjectKey, EncodeURIComponent(subject)) >> ELSE << >>)
  \o (IF body # Empty THEN << KV(BODY, EncodeURIComponent(body)) >> ELSE << >>)

\* what follows 'mailto:' + address in the native link
NativeTail(link, to) == SliceFrom(link, Len(MAILTO) + Len(to))

\* the parameters after the '?' of the native link, if any
NativeParams(link, to) ==
  IF NativeTail(link, to) = Empty THEN << >> ELSE LinkParams(Tail(NativeTail(link, to)))

\* the three links are the reference links for (to, subject, body)
ReferenceLinks(links, to, subject, body) ==
  /\ Endpoint(links.gmail) = GmailEndpoint
  /\ LinkParams(QueryOf(links.gmail)) =
       << KV(Lit(<< "v","i","e","w" >>), Lit(<< "c","m" >>)), KV(Lit(<< "f","s" >>), Lit(<< "1" >>)),
          KV(TO, EncodeURIComponent(to)) >> \o Optional(SU, subject, body)
  /\ Endpoint(links.outlook) = OutlookEndpoint
  /\ LinkParams(QueryOf(links.outlook)) =
       << KV(TO, EncodeURIComponent(to)) >> \o Optional(SUBJECT, subject, body)
  /\ StartsWith(links.mailto, MAILTO \o to)
  /\ IF subject = Empty /\ body = Empty
     THEN NativeTail(links.mailto, to) = Empty
     ELSE /\ NativeTail(links.mailto, to)[1] = 63
          /\ NativeParams(links.mailto, to) = Optional(SUBJECT, subject, body)

\* the request openModal displays for a payload
Shown(payload) ==
  [to |-> IF Truthy(payload.to) THEN payload.to ELSE DEFAULT_TO,
   subject |-> IF Truthy(payload.subject) THEN payload.subject ELSE Empty,
   body |-> IF Truthy(payload.body) THEN payload.body ELSE Empty]

\* ------------------------------------------------------------------------
\* Properties
\* ------------------------------------------------------------------------

\* C1: once openModal has been called, the recipient text and the three links
\* are those of the most recent call's request alone, whatever came before.
C1_LastOpenAlone ==
  lastReq # NoRequest =>
    /\ dom.toText = Shown(lastReq).to
    /\ ReferenceLinks(dom, Shown(lastReq).to, Shown(lastReq).subject, Shown(lastReq).body)

\* C1 witness: a copy was started while x@y.z (opened with a subject) was
\* displayed, and a later open without subject or body replaced it
C1_Witness ==
  /\ Len(pending) > 0
  /\ pending[1].shown = AddrXY
  /\ lastReq = Payload(AddrAB, Absent, Absent)
  /\ dom.mailto = MAILTO \o AddrAB

\* C2: whenever the dialog is open, a click on the backdrop, a click on the
\* close button and an Escape key press each leave it closed.
C2_CloseTriggersClose ==
  [][(/\ dom.isOpen
      /\ \/ ev'.kind \in { "backdrop", "closeBtn" }
         \/ (ev'.kind = "keydown" /\ ev'.key = "Escape"))
     => ~dom'.isOpen]_vars

\* C3 as stated: a manual-copy prompt always shows the recipient text the
\* dialog displays at that moment.
C3_PromptShowsCurrent == ev.kind = "prompt" => ev.text = dom.toText

\* C3 amended: a manual-copy prompt shows the recipient text that was
\* displayed when its copy action was activated, and the step that prompts
\* shows no toast and starts no timer.
C3_PromptShowsCopied ==
  [][ev'.kind = "prompt" =>
       /\ toast' = toast
       /\ timers' = timers
       /\ IF pending' = pending
          THEN ev'.text = dom.toText
          ELSE \E i \in 1..Len(pending) : pending' = Remove(pending, i) /\ ev'.text = pending[i].shown]_vars

\* C3 witness: a prompt for the default address while another is displayed
C3_Witness == ev.kind = "prompt" /\ ev.text = DEFAULT_TO /\ dom.toText = AddrAB /\ toast.show = FALSE

\* C4: a click inside a trigger element suppresses the default action and
\* opens the dialog with the request of its attributes (default address for an
\* absent or empty recipient), also inside a mailto anchor; otherwise a click
\* inside a mailto anchor suppresses the default action and opens the dialog
\* with the decomposition of its href.
C4_RulesInOrder ==
  ev.kind = "click" =>
    IF ev.tgt.trig # NoElement
    THEN /\ ev.prevented /\ ~ev.threw /\ dom.isOpen
         /\ lastReq.to = (IF ev.tgt.trig.email \in { Absent, Empty } THEN DEFAULT_TO ELSE ev.tgt.trig.email)
         /\ lastReq.subject = (IF ev.tgt.trig.subject = Absent THEN Empty ELSE ev.tgt.trig.subject)
         /\ lastReq.body = (IF ev.tgt.trig.body = Absent THEN Empty ELSE ev.tgt.trig.body)
         /\ dom.toText = lastReq.to
    ELSE (ev.tgt.href # Absent /\ StartsWith(ev.tgt.href, MAILTO)) =>
           /\ ev.prevented /\ ~ev.threw /\ dom.isOpen
           /\ lastReq = Payload(parseMailto(ev.tgt.href).to, parseMailto(ev.tgt.href).subject,
                                parseMailto(ev.tgt.href).body)
           /\ dom.toText = Shown(lastReq).to

\* C5: a click on a mailto anchor never ends in an uncaught error: the dialog
\* opens, with the default address when the address part does not decode.
C5_NeverRaises ==
  (ev.kind = "click" /\ ev.tgt.trig = NoElement /\ ev.tgt.href # Absent /\ StartsWith(ev.tgt.href, MAILTO))
    => /\ ~ev.threw
       /\ dom.isOpen
       /\ (ev.tgt.href = HrefBadPct => dom.toText = DEFAULT_TO)

\* does s start with 'mailto:' in any letter case
HasScheme(s) ==
  /\ Len(s) >= 7
  /\ \A i \in 1..7 : s[i] = MAILTO[i] \/ s[i] + 32 = MAILTO[i]

\* parseMailto has been applied to the generated href
Parsed == arg.kind = "parse" /\ ret.stage \in { "parsed", "opened" }

AllEmpty == ParseOut(Empty, Empty, Empty)

\* C6 as stated: a string that does not start with the scheme prefix
\* decomposes to the default address and empty subject and body.
C6_NoSchemeGivesDefault ==
  (Parsed /\ ~HasScheme(Href(arg))) => ret.out = ParseOut(DEFAULT_TO, Empty, Empty)

\* C6 amended: a string that, once trimmed, does not start with the scheme
\* prefix decomposes to an empty recipient, subject and body, and the dialog
\* opened with that result displays the default address with no subject or body.
C6_NoSchemeGivesEmpty ==
  (Parsed /\ ~HasScheme(Trim(Href(arg)))) =>
    /\ ret.out = AllEmpty
    /\ ret.stage = "opened" =>
         /\ ret.links.toText = DEFAULT_TO
         /\ ReferenceLinks(ret.links, DEFAULT_TO, Empty, Empty)

\* C6 witness: 'http:x@y.z?subject=Hi%20there' decomposed and opened
C6_Witness ==
  /\ ret.stage = "opened"
  /\ arg.pre = Lit(<< "h","t","t","p",":" >>)
  /\ arg.addr.raw = AddrXY
  /\ arg.q.has /\ Len(arg.q.pairs) = 1 /\ arg.q.pairs[1].dec = HiThere
  /\ ret.links.mailto = MAILTO \o DEFAULT_TO

\* the written pieces of the generated query whose key is k, in order
RECURSIVE WithKey(_, _)
WithKey(ps, k) ==
  IF ps = << >> THEN << >>
  ELSE (IF ps[1].key = k THEN << ps[1] >> ELSE << >>) \o WithKey(Tail(ps), k)

\* a generated href that parseMailto decomposes (scheme present, address decodes)
Decomposed == Parsed /\ HasScheme(Trim(Href(arg))) /\ arg.addr.ok

\* C7 as stated: when the query has a subject key, the decomposed subject is
\* the value of subject, whatever it is, and su is ignored.
C7_SubjectKeyWins ==
  (Decomposed /\ WithKey(arg.q.pairs, SUBJECT) # << >>)
    => ret.out.subject = WithKey(arg.q.pairs, SUBJECT)[1].dec

\* C7 amended: the decomposed subject is the first subject value when there is
\* one and it is not empty; otherwise it is the first su value, or empty
\* when there is no su key.
C7_SubjectUnlessEmpty ==
  Decomposed =>
    ret.out.subject =
      IF WithKey(arg.q.pairs, SUBJECT) # << >> /\ WithKey(arg.q.pairs, SUBJECT)[1].dec # Empty
      THEN WithKey(arg.q.pairs, SUBJECT)[1].dec
      ELSE IF WithKey(arg.q.pairs, SU) # << >> THEN WithKey(arg.q.pairs, SU)[1].dec
      ELSE Empty

\* C7 witness: 'mailto:x@y.z?subject=&su=Yo' decomposed, and also a
\* non-empty subject ahead of su
C7_Witness ==
  /\ Decomposed
  /\ Len(arg.q.pairs) = 2
  /\ arg.q.pairs[1].key = SUBJECT /\ arg.q.pairs[1].dec = Empty
  /\ arg.q.pairs[2].key = SU
  /\ ret.out.subject = Yo

\* C8: buildLinks gives exactly the reference links: fixed parameter order,
\* optional parameters only for non-empty values, raw address in the native link.
C8_ReferenceLinks ==
  /\ (arg.kind = "build" /\ ret.stage = "built")
       => /\ ReferenceLinks(ret.links, arg.to, arg.subject, arg.body)
          /\ ret.links.toText = arg.to
  /\ (arg.kind = "parse" /\ ret.stage = "opened")
       => ReferenceLinks(ret.links, Shown(ret.out).to, Shown(ret.out).subject, Shown(ret.out).body)

\* C8 witness: links built for an address and a body full of reserved
\* characters and an empty subject
C8_Witness ==
  /\ arg.kind = "build" /\ ret.stage = "built"
  /\ arg.to = Fifty /\ arg.subject = Empty /\ arg.body = Fifty
  /\ ret.links.mailto = MAILTO \o Fifty \o Lit(<< "?","b","o","d","y","=" >>) \o EncodeURIComponent(Fifty)

\* the emitted values of key k among parameters ps, percent-decoded once
DecodedValues(ps, k) ==
  { DecodeURIComponent(ps[i].v) : i \in { j \in 1..Len(ps) : ps[j].k = k } }

\* every value emitted under key k decodes once to field; none when it is empty
OneLevel(ps, k, field) ==
  DecodedValues(ps, k) = IF field = Empty THEN { } ELSE { [ok |-> TRUE, val |-> field] }

\* C9: in the links built from a decomposed mailto href every emitted
\* parameter value decodes once to the decomposed field.
C9_OneLevelOfEncoding ==
  (Decomposed /\ ret.stage = "opened") =>
    /\ OneLevel(LinkParams(QueryOf(ret.links.gmail)), TO, ret.out.to)
    /\ OneLevel(LinkParams(QueryOf(ret.links.gmail)), SU, ret.out.subject)
    /\ OneLevel(LinkParams(QueryOf(ret.links.gmail)), BODY, ret.out.body)
    /\ OneLevel(LinkParams(QueryOf(ret.links.outlook)), TO, ret.out.to)
    /\ OneLevel(LinkParams(QueryOf(ret.links.outlook)), SUBJECT, ret.out.subject)
    /\ OneLevel(LinkParams(QueryOf(ret.links.outlook)), BODY, ret.out.body)
    /\ OneLevel(NativeParams(ret.links.mailto, ret.out.to), SUBJECT, ret.out.subject)
    /\ OneLevel(NativeParams(ret.links.mailto, ret.out.to), BODY, ret.out.body)

\* C9 witness: 'subject=Hi%20there' decomposed to 'Hi there' and emitted
\* as 'Hi%20there'
C9_Witness ==
  /\ Decomposed /\ ret.stage = "opened"
  /\ arg.q.has /\ Len(arg.q.pairs) = 1
  /\ arg.q.pairs[1].raw = Lit(<< "H","i","%","2","0","t","h","e","r","e" >>)
  /\ ret.out.subject = HiThere
  /\ KV(SU, Lit(<< "H","i","%","2","0","t","h","e","r","e" >>))
       \in { LinkParams(QueryOf(ret.links.gmail))[i] : i \in 1..Len(LinkParams(QueryOf(ret.links.gmail))) }

\* C10: a close() call leaves the dialog closed whatever the state, and on a
\* closed dialog a close() call or an Escape key press changes nothing;
\* a further close() would change nothing either.
C10_CloseIdempotent ==
  [][/\ ev'.kind = "close" =>
          /\ ~dom'.isOpen
          /\ ~ev'.threw
          /\ closeModal(dom') = dom'
          /\ ~dom.isOpen => dom' = dom
          /\ << toast, timers, wired, pending, lastReq >>' = << toast, timers, wired, pending, lastReq >>
     /\ (ev'.kind = "keydown" /\ ~dom.isOpen) =>
          << dom, toast, timers, wired, pending, lastReq >>' = << dom, toast, timers, wired, pending, lastReq >>
    ]_vars

\* C10 witness: close() has just run on a dialog that had been opened
C10_Witness == ev.kind = "close" /\ dom.exists /\ ~dom.isOpen /\ lastReq # NoRequest

\* C11: a close() call made while the surface does not exist changes nothing:
\* no surface is created, no error is raised, all state stays as it was.
C11_CloseWithoutSurface ==
  [][(ev'.kind = "close" /\ ~dom.exists) =>
       /\ ~ev'.threw
       /\ ~dom'.exists
       /\ << dom, toast, timers, wired, pending, lastReq >>' = << dom, toast, timers, wired, pending, lastReq >>]_vars

\* C11 witness: close() has run and there is still no surface
C11_Witness == ev.kind = "close" /\ ~dom.exists /\ ~wired /\ lastReq = NoRequest

\* C12: a click inside no trigger element and inside no anchor whose href
\* begins with 'mailto:' goes through untouched: the default action is not
\* suppressed, the dialog is not opened and nothing displayed changes.
C12_NoMatchPassesThrough ==
  [][(/\ ev'.kind = "click"
      /\ ev'.tgt.trig = NoElement
      /\ (ev'.tgt.href = Absent \/ ~StartsWith(ev'.tgt.href, MAILTO)))
     => /\ ~ev'.prevented
        /\ ~ev'.threw
        /\ << dom, toast, timers, wired, pending, lastReq >>' = << dom, toast, timers, wired, pending, lastReq >>]_vars

\* C12 witness: a click on an https link while the dialog is open
C12_Witness ==
  /\ ev.kind = "click"
  /\ ev.tgt = Target(NoElement, HrefHttps)
  /\ ~ev.prevented
  /\ dom.isOpen /\ dom.toText = AddrAB

\* C13: the document never holds more than one overlay and one notification
\* area, and an initialisation that finds the surface (DOMContentLoaded after
\* an open, or ensureModal inside a later open) leaves it as it is.
C13_SurfaceCreatedOnce ==
  [][/\ dom'.surfaces <= 1
     /\ dom'.exists <=> dom'.surfaces = 1
     /\ dom.exists => ensureModal(dom) = dom
     /\ (ev'.kind = "DOMContentLoaded" /\ dom.exists) => dom' = dom
     /\ (ev'.kind = "DOMContentLoaded" /\ ~dom.exists) =>
          dom' = [NoSurface EXCEPT !.exists = TRUE, !.surfaces = 1, !.toText = DEFAULT_TO]]_vars

\* C13 witness: DOMContentLoaded has run after an open and the dialog is
\* still open on the opened request
C13_Witness ==
  /\ ev.kind = "DOMContentLoaded"
  /\ dom.surfaces = 1 /\ dom.isOpen /\ dom.toText = AddrAB
  /\ lastReq = Payload(AddrAB, HiThere, Yo)

SubjectBodyForm ==
  /\ Decomposed
  /\ arg.pre = MAILTO
  /\ arg.addr.dec # Empty /\ Trim(arg.addr.dec) = arg.addr.dec
  /\ arg.q.has /\ Len(arg.q.pairs) = 2
  /\ arg.q.pairs[1].key = SUBJECT /\ arg.q.pairs[1].eq
  /\ arg.q.pairs[2].key = BODY /\ arg.q.pairs[2].eq
  /\ \A i \in 1..2 : DecodeURIComponent(arg.q.pairs[i].raw) = [ok |-> TRUE, val |-> arg.q.pairs[i].dec]

\* C15: for mailto:addr?subject=S&body=B the decomposition is exactly the
\* percent-decoding of addr, S and B.
C15_RecoversExactly ==
  SubjectBodyForm =>
    ret.out = ParseOut(arg.addr.dec, arg.q.pairs[1].dec, arg.q.pairs[2].dec)

\* C16: a successful clipboard write shows the confirmation 'Copied'; a shown
\* confirmation is eventually dismissed, whatever happens in between; showing
\* and dismissing leave the dialog as it is.
C16_ToastShownThenDismissed ==
  /\ toast.show ~> ~toast.show
  /\ [][/\ ev'.kind = "toast" => (toast'.show /\ toast'.text = COPIED /\ timers' = timers + 1)
        /\ ev'.kind \in { "toast", "timeout" } => (dom' = dom /\ lastReq' = lastReq)]_vars

\* C16 witness: the confirmation has been dismissed by its timeout while the
\* dialog is open
C16_Witness ==
  /\ ev.kind = "timeout" /\ ~toast.show /\ toast.text = COPIED /\ timers = 0
  /\ dom.isOpen

\* C17: all timeouts have the same delay, so the one that elapses while others
\* are pending is the earliest; while the timer of a later copy is pending,
\* the confirmation that copy showed stays visible.
C17_EarlierTimerKeepsLaterToast ==
  [][(ev'.kind = "timeout" /\ timers > 1 /\ toast.show) => toast'.show]_vars

\* C18: whenever the surface exists, aria-hidden is "false" exactly when the
\* dialog has class is-open and "true" exactly when it has not.
C18_AriaAgreesWithOpen ==
  dom.exists =>
    /\ dom.ariaHidden = "false" <=> dom.isOpen
    /\ dom.ariaHidden = "true" <=> ~dom.isOpen

\* C18 witness: the dialog has been opened and is closed again by the Escape key
C18_Witness ==
  /\ ev.kind = "keydown" /\ ev.key = "Escape"
  /\ lastReq # NoRequest /\ dom.exists /\ ~dom.isOpen /\ dom.ariaHidden = "true"

\* the events that run closeModal
CloseEvents == { "close", "backdrop", "closeBtn", "keydown" }

\* C19: a close leaves the displayed recipient, the three links, the
\* confirmation area and the presence of the surface as they are, and a copy
\* made while the dialog is closed takes the recipient of the last open.
C19_CloseKeepsContent ==
  [][/\ ev'.kind \in CloseEvents =>
          /\ dom'.toText = dom.toText
          /\ dom'.gmail = dom.gmail /\ dom'.outlook = dom.outlook /\ dom'.mailto = dom.mailto
          /\ dom'.exists = dom.exists /\ dom'.surfaces = dom.surfaces
          /\ toast' = toast /\ timers' = timers
     /\ (ev'.kind = "copy" /\ ~dom.isOpen /\ lastReq # NoRequest) =>
          pending'[Len(pending')].email = Shown(lastReq).to]_vars

\* C19 witness: a copy made after closing a dialog that showed another
\* recipient than the default
C19_Witness ==
  /\ ev.kind = "copy" /\ ~dom.isOpen /\ lastReq # NoRequest
  /\ pending # << >> /\ pending[Len(pending)].email = Shown(lastReq).to
  /\ Shown(lastReq).to # DEFAULT_TO

\* the value of the first parameter named key in the query of a web link
ParamOf(link, key) ==
  LET ps == LinkParams(QueryOf(link))
  IN IF \E i \in 1..Len(ps) : ps[i].k = key
     THEN ps[CHOOSE i \in 1..Len(ps) : ps[i].k = key /\ \A j \in 1..(i - 1) : ps[j].k # key].v
     ELSE Absent

\* C20: whenever the surface exists the displayed recipient is non-empty, and
\* while the dialog is open the native link is 'mailto:' + that text (up to its
\* query) and the Gmail and Outlook links carry its encoding as 'to'.
C20_LinksAgreeWithRecipient ==
  dom.exists =>
    /\ dom.toText # Empty /\ dom.toText # Absent
    /\ dom.isOpen =>
         /\ dom.mailto # Absent /\ dom.gmail # Absent /\ dom.outlook # Absent
         /\ StartsWith(dom.mailto, MAILTO \o dom.toText)
         /\ NativeTail(dom.mailto, dom.toText) = Empty \/ Head(NativeTail(dom.mailto, dom.toText)) = 63
         /\ ParamOf(dom.gmail, TO) = EncodeURIComponent(dom.toText)
         /\ ParamOf(dom.outlook, TO) = EncodeURIComponent(dom.toText)

\* C20 witness: an open dialog showing a recipient taken from a clicked mailto
\* link
C20_Witness ==
  /\ ev.kind = "click" /\ ev.prevented /\ ~ev.threw
  /\ dom.isOpen /\ dom.toText # DEFAULT_TO
  /\ ParamOf(dom.gmail, TO) = EncodeURIComponent(dom.toText)

====
